---- MODULE Spec2Model ----
(***************************************************************************)
(* Model of the token-authenticated item API (src/server_token_auth.py).   *)
(*                                                                         *)
(* State: the process-wide configuration read from the environment at      *)
(* import time, the two module-level dictionaries users_db and db, the     *)
(* wall clock, the tokens that successful logins handed to clients, the    *)
(* request being served and the last response sent.                        *)
(*                                                                         *)
(* Time is counted in minutes.  A JWT is modelled by its claim set and an  *)
(* ideal MAC: the signature is the pair (signed payload, signing key).     *)
(* A bcrypt hash is modelled as (scheme, salt, digest of salt and          *)
(* password).                                                              *)
(***************************************************************************)
EXTENDS Integers, Sequences, FiniteSets, TLC

VARIABLES
    APP_USERNAME,                 \* os.getenv("APP_USERNAME")
    ACCESS_TOKEN_EXPIRE_MINUTES,  \* int(os.getenv("ACCESS_TOKEN_EXPIRE_MINUTES"))
    jwt_exp_inclusive,            \* installed PyJWT: TRUE when exp = now is still accepted
    users_db,                     \* module-level dict of user records
    db,                           \* module-level dict of items, in insertion order
    now,                          \* datetime.utcnow(), in minutes
    issued,                       \* tokens returned by login, with the login that got them
    req,                          \* the request being served / last served
    resp,                         \* the last response sent
    waiting,                      \* admitted requests whose handler has not run yet
    db_basic,                     \* db of src/server_basic_auth.py
    req_basic,                    \* the Authorization header of its last request
    resp_basic,                   \* the last response of the basic-auth server
    db_open,                      \* db of src/server_no_auth.py
    resp_open                     \* the last response of the no-auth server

vars == <<APP_USERNAME, ACCESS_TOKEN_EXPIRE_MINUTES, jwt_exp_inclusive,
          users_db, db, now, issued, req, resp,
          waiting, db_basic, req_basic, resp_basic, db_open, resp_open>>

\* what the steps of one request of the token server never touch
others == <<waiting, db_basic, req_basic, resp_basic, db_open, resp_open>>

config == <<APP_USERNAME, ACCESS_TOKEN_EXPIRE_MINUTES, jwt_exp_inclusive>>

(***************************************************************************)
(* Bounds of the model.                                                    *)
(***************************************************************************)
MaxTime == 3
MaxLifetime == 1
MaxTokens == 1
MaxItemId == 1
MaxWaiting == 1

(***************************************************************************)
(* Values.                                                                 *)
(***************************************************************************)
None == "None"

\* the usernames a client may type; "user" is the literal key of users_db
Usernames == {"user", "alice"}

\* the values the environment may give APP_USERNAME (None: not set)
ConfiguredUsernames == {"user", "alice", None}

\* the password whose bcrypt hash is configured as HASHED_PASSWORD
ConfiguredPassword == "wonderland"

Passwords == {ConfiguredPassword, "wrong"}

ItemIds == 1..MaxItemId

Items == {"itemA", "itemB"}

Lifetimes == 0..MaxLifetime

SECRET_KEY == "SECRET_KEY"

\* a signing secret that is not the server's
OtherKey == "other-secret"

\* timedelta(minutes=15)
DefaultExpireMinutes == 15

(***************************************************************************)
(* passlib: CryptContext(schemes=["bcrypt"]).                              *)
(***************************************************************************)
BcryptHash(salt, password) ==
    [scheme |-> "bcrypt", salt |-> salt, digest |-> <<salt, password>>]

MalformedHash == [scheme |-> "unknown", salt |-> None, digest |-> <<>>]

\* pwd_context.verify: "true", "false", or "raise" when the hash is not identified
pwd_context_verify(plain_password, hashed_password) ==
    IF hashed_password.scheme # "bcrypt" THEN "raise"
    ELSE IF hashed_password.digest = <<hashed_password.salt, plain_password>>
         THEN "true" ELSE "false"

verify_password(plain_password, hashed_password) ==
    pwd_context_verify(plain_password, hashed_password)

(***************************************************************************)
(* users_db as the module builds it: one record under the literal key      *)
(* "user", whose username field is the configured APP_USERNAME.            *)
(***************************************************************************)
UserRecord(username, hashed_password, disabled) ==
    [username |-> username, full_name |-> "Test User",
     hashed_password |-> hashed_password, disabled |-> disabled]

NoUser == UserRecord(None, MalformedHash, FALSE)

users_db_literal(app_username, hashed_password, disabled) ==
    [k \in {"user"} |-> UserRecord(app_username, hashed_password, disabled)]

\* users_db.get(username): the record, or absent
users_db_has(username) == username \in DOMAIN users_db

(***************************************************************************)
(* PyJWT.  A token is its claim set plus the MAC over the claim set; the   *)
(* forms "garbled" and "absent" stand for a string that is no JWT and for  *)
(* a request without an Authorization header.                              *)
(***************************************************************************)
Sign(sub, exp, key) == [payload |-> <<sub, exp>>, key |-> key]

Token(form, sub, exp, sig) == [form |-> form, sub |-> sub, exp |-> exp, sig |-> sig]

GarbledToken == Token("garbled", None, 0, Sign(None, 0, None))

AbsentToken == Token("absent", None, 0, Sign(None, 0, None))

\* jwt.encode(to_encode, key, algorithm=ALGORITHM)
jwt_encode(sub, exp, key) == Token("jwt", sub, exp, Sign(sub, exp, key))

\* jwt.decode with options={"verify_signature": False}
jwt_verify_signature_off(token, key) == TRUE

\* signature verification inside jwt.decode
jwt_verify_signature(token, key) ==
    token.sig = Sign(token.sub, token.exp, key)

\* jwt.decode with options={"verify_exp": False}
jwt_expired_off(token) == FALSE

\* jwt.decode with leeway=timedelta(minutes=1): a grace window after exp
jwt_expired_leeway(token) ==
    IF jwt_exp_inclusive THEN token.exp < now - 1 ELSE token.exp <= now - 1

\* the exp check inside jwt.decode, at the validator's clock
jwt_expired(token) ==
    IF jwt_exp_inclusive THEN token.exp < now ELSE token.exp <= now

\* jwt.decode(token, key, algorithms=[ALGORITHM]): the payload, or the PyJWTError raised
jwt_decode(token, key) ==
    IF token.form # "jwt" THEN [tag |-> "PyJWTError", error |-> "DecodeError"]
    ELSE IF ~jwt_verify_signature(token, key)
         THEN [tag |-> "PyJWTError", error |-> "InvalidSignatureError"]
    ELSE IF jwt_expired(token)
         THEN [tag |-> "PyJWTError", error |-> "ExpiredSignatureError"]
    ELSE [tag |-> "payload", sub |-> token.sub, exp |-> token.exp]

(***************************************************************************)
(* Responses.                                                              *)
(***************************************************************************)
NoBody == [kind |-> "none"]

Response(status, detail, challenge, body) ==
    [status |-> status, detail |-> detail, challenge |-> challenge, body |-> body]

HTTPException(status, detail, challenge) == Response(status, detail, challenge, NoBody)

\* an exception no handler catches: the framework answers 500
UnhandledError == HTTPException(500, "Internal Server Error", None)

\* OAuth2PasswordBearer without an Authorization: Bearer header
not_authenticated == HTTPException(401, "Not authenticated", "Bearer")

credentials_exception == HTTPException(401, "Could not validate credentials", "Bearer")

login_exception == HTTPException(401, "Incorrect username or password", "Bearer")

(***************************************************************************)
(* Functions of the module.                                                *)
(***************************************************************************)
\* users_db[username] in place of users_db.get(username): KeyError for an unknown name
authenticate_user_keyerror(username, password) ==
    IF ~users_db_has(username) THEN [tag |-> "raise", user |-> NoUser]
    ELSE LET user == users_db[username]
             v == verify_password(password, user.hashed_password)
         IN  CASE v = "raise" -> [tag |-> "raise", user |-> NoUser]
               [] v = "false" -> [tag |-> "False", user |-> NoUser]
               [] OTHER       -> [tag |-> "user", user |-> user]

\* the password check left out: only "if not user"
authenticate_user_no_password(username, password) ==
    IF ~users_db_has(username) THEN [tag |-> "False", user |-> NoUser]
    ELSE [tag |-> "user", user |-> users_db[username]]

\* returns the user record, False, or raises what verify_password raises
authenticate_user(username, password) ==
    IF ~users_db_has(username) THEN [tag |-> "False", user |-> NoUser]
    ELSE LET user == users_db[username]
             v == verify_password(password, user.hashed_password)
         IN  CASE v = "raise" -> [tag |-> "raise", user |-> NoUser]
               [] v = "false" -> [tag |-> "False", user |-> NoUser]
               [] OTHER       -> [tag |-> "user", user |-> user]

timedelta(minutes) == [given |-> TRUE, minutes |-> minutes]

NoDelta == [given |-> FALSE, minutes |-> 0]

\* truth value of an Optional[timedelta]: None and timedelta(0) are false
Truthy(expires_delta) == expires_delta.given /\ expires_delta.minutes # 0

create_access_token(sub, expires_delta) ==
    LET expire == IF Truthy(expires_delta)
                  THEN now + expires_delta.minutes
                  ELSE now + DefaultExpireMinutes
    IN  jwt_encode(sub, expire, SECRET_KEY)

\* the "except jwt.PyJWTError" clause left out: a PyJWTError is not handled
get_current_user_no_except(token) ==
    LET payload == jwt_decode(token, SECRET_KEY)
    IN  IF payload.tag = "PyJWTError"
        THEN [tag |-> "HTTPException", exc |-> UnhandledError, user |-> NoUser]
        ELSE IF payload.sub = None
        THEN [tag |-> "HTTPException", exc |-> credentials_exception, user |-> NoUser]
        ELSE IF ~users_db_has(payload.sub)
        THEN [tag |-> "HTTPException", exc |-> credentials_exception, user |-> NoUser]
        ELSE [tag |-> "user", exc |-> NoBody, user |-> users_db[payload.sub]]

\* the dependency of every protected route: the user, or the HTTPException raised
get_current_user(token) ==
    LET payload == jwt_decode(token, SECRET_KEY)
    IN  IF payload.tag = "PyJWTError"
        THEN [tag |-> "HTTPException", exc |-> credentials_exception, user |-> NoUser]
        ELSE IF payload.sub = None
        THEN [tag |-> "HTTPException", exc |-> credentials_exception, user |-> NoUser]
        ELSE IF ~users_db_has(payload.sub)
        THEN [tag |-> "HTTPException", exc |-> credentials_exception, user |-> NoUser]
        ELSE [tag |-> "user", exc |-> NoBody, user |-> users_db[payload.sub]]

\* oauth2_scheme, then get_current_user
Depends_get_current_user(token) ==
    IF token.form = "absent"
    THEN [tag |-> "HTTPException", exc |-> not_authenticated, user |-> NoUser]
    ELSE get_current_user(token)

(***************************************************************************)
(* The item store: a Python dict, kept as the sequence of its (key, value) *)
(* pairs in insertion order.                                               *)
(***************************************************************************)
NoItem == "NoItem"

db_keys == {db[i].id : i \in 1..Len(db)}

\* item_id in db
db_contains(item_id) == item_id \in db_keys

db_index(item_id) == CHOOSE i \in 1..Len(db) : db[i].id = item_id

\* db[item_id]
db_get(item_id) == db[db_index(item_id)].item

\* db[item_id] = item: a new key goes last, an existing key keeps its place
db_set(item_id, item) ==
    IF db_contains(item_id)
    THEN [db EXCEPT ![db_index(item_id)] = [id |-> item_id, item |-> item]]
    ELSE Append(db, [id |-> item_id, item |-> item])

\* db.pop(item_id): the dict without the key
db_pop(item_id) ==
    LET k == db_index(item_id)
    IN  [i \in 1..(Len(db) - 1) |-> IF i < k THEN db[i] ELSE db[i + 1]]

\* list(db.values())
db_values == [i \in 1..Len(db) |-> db[i].item]

(***************************************************************************)
(* Requests.                                                               *)
(***************************************************************************)
ProtectedRoutes == {"create_item", "read_item", "read_items", "update_item", "delete_item"}

Request(route, username, password, item_id, item, token, origin, pc, user) ==
    [route |-> route, username |-> username, password |-> password,
     item_id |-> item_id, item |-> item, token |-> token, origin |-> origin,
     pc |-> pc, current_user |-> user]

NoRequest ==
    [route |-> "none", username |-> None, password |-> None,
     item_id |-> 0, item |-> NoItem, token |-> AbsentToken, origin |-> "none",
     pc |-> "done", current_user |-> NoUser]

NoResponse == Response(0, None, None, NoBody)

\* the path and body parameters each route takes
RouteInputs ==
    {[route |-> r, item_id |-> i, item |-> x] :
        r \in {"create_item", "update_item"}, i \in ItemIds, x \in Items}
    \cup {[route |-> r, item_id |-> i, item |-> NoItem] :
        r \in {"read_item", "delete_item"}, i \in ItemIds}
    \cup {[route |-> "read_items", item_id |-> 0, item |-> NoItem]}

\* an expiry later than any the clock reaches
FarFuture == MaxTime + DefaultExpireMinutes + 1

\* what a client can put in the Authorization header: nothing, a string that is
\* no JWT, a token a login returned, such a token with its subject or expiry
\* rewritten (the signature left as it was), or a token signed with another secret
Candidates ==
    {[token |-> AbsentToken, origin |-> "none"],
     [token |-> GarbledToken, origin |-> "garbled"]}
    \cup {[token |-> i.token, origin |-> "issued"] : i \in issued}
    \cup {[token |-> [i.token EXCEPT !.exp = FarFuture], origin |-> "tampered_exp"] :
            i \in issued}
    \cup UNION {{[token |-> [i.token EXCEPT !.sub = s], origin |-> "tampered_sub"] :
                    s \in Usernames \ {i.token.sub}} : i \in issued}
    \cup {[token |-> jwt_encode(s, FarFuture, OtherKey), origin |-> "foreign"] :
            s \in Usernames}

\* the Authorization header of a request to the basic-auth server: absent, or
\* "Basic" with a username and a password
NoAuthorization == [scheme |-> "none", username |-> None, password |-> None]

BasicHeaders ==
    {NoAuthorization}
    \cup {[scheme |-> "basic", username |-> u, password |-> p] :
            u \in Usernames, p \in Passwords}

(***************************************************************************)
(* Initial state: the module just imported.                                *)
(***************************************************************************)
InitConfig ==
    /\ APP_USERNAME \in ConfiguredUsernames
    /\ ACCESS_TOKEN_EXPIRE_MINUTES \in Lifetimes
    /\ jwt_exp_inclusive \in BOOLEAN

InitState ==
    /\ db = <<>>
    /\ now = 0
    /\ issued = {}
    /\ req = NoRequest
    /\ resp = NoResponse
    /\ waiting = {}
    /\ db_basic = <<>>
    /\ req_basic = NoAuthorization
    /\ resp_basic = NoResponse
    /\ db_open = <<>>
    /\ resp_open = NoResponse

Init ==
    /\ InitConfig
    /\ users_db = users_db_literal(APP_USERNAME, BcryptHash("salt", ConfiguredPassword), FALSE)
    /\ InitState

(***************************************************************************)
(* Actions.                                                                *)
(***************************************************************************)
\* the clock advances by a minute
Tick ==
    /\ now < MaxTime
    /\ now' = now + 1
    /\ UNCHANGED <<config, users_db, db, issued, req, resp>>

\* login that also re-hashes the stored password with a fresh salt (verify_and_update)
login_rehash(username, password) ==
    /\ req.pc = "done"
    /\ LET user == authenticate_user(username, password)
           access_token_expires == timedelta(ACCESS_TOKEN_EXPIRE_MINUTES)
           access_token == create_access_token(user.user.username, access_token_expires)
       IN  /\ req' = Request("login", username, password, 0, NoItem,
                             AbsentToken, "none", "done", NoUser)
           /\ CASE user.tag = "raise" ->
                     /\ resp' = UnhandledError
                     /\ issued' = issued
                     /\ users_db' = users_db
                [] user.tag = "False" ->
                     /\ resp' = login_exception
                     /\ issued' = issued
                     /\ users_db' = users_db
                [] OTHER ->
                     /\ resp' = Response(200, None, None,
                                    [kind |-> "token", access_token |-> access_token,
                                     token_type |-> "bearer"])
                     /\ issued' = issued \cup
                            {[token |-> access_token, username |-> username,
                              password |-> password, at |-> now]}
                     /\ Cardinality(issued') <= MaxTokens
                     /\ users_db' = [users_db EXCEPT ![username].hashed_password =
                                        BcryptHash("salt2", password)]
    /\ UNCHANGED <<config, db, now>>

\* POST /token
login(username, password) ==
    /\ req.pc = "done"
    /\ LET user == authenticate_user(username, password)
           access_token_expires == timedelta(ACCESS_TOKEN_EXPIRE_MINUTES)
           access_token == create_access_token(user.user.username, access_token_expires)
       IN  /\ req' = Request("login", username, password, 0, NoItem,
                             AbsentToken, "none", "done", NoUser)
           /\ CASE user.tag = "raise" ->
                     /\ resp' = UnhandledError
                     /\ issued' = issued
                [] user.tag = "False" ->
                     /\ resp' = login_exception
                     /\ issued' = issued
                [] OTHER ->
                     /\ resp' = Response(200, None, None,
                                    [kind |-> "token", access_token |-> access_token,
                                     token_type |-> "bearer"])
                     /\ issued' = issued \cup
                            {[token |-> access_token, username |-> username,
                              password |-> password, at |-> now]}
                     /\ Cardinality(issued') <= MaxTokens
    /\ UNCHANGED <<config, users_db, db, now>>

\* a request to a protected route arrives and its dependency is resolved; the
\* path and body parameters reach the handler only when the dependency returns
Authorize(route, token, origin) ==
    /\ req.pc = "done"
    /\ LET current_user == Depends_get_current_user(token)
       IN  IF current_user.tag = "HTTPException"
           THEN /\ req' = Request(route, None, None, 0, NoItem, token, origin,
                                  "done", NoUser)
                /\ resp' = current_user.exc
           ELSE /\ \E i \in RouteInputs :
                     /\ i.route = route
                     /\ req' = Request(route, None, None, i.item_id, i.item, token,
                                       origin, "handler", current_user.user)
                /\ resp' = NoResponse
    /\ UNCHANGED <<config, users_db, db, now, issued>>

Handling(route) == req.pc = "handler" /\ req.route = route

Respond(response) ==
    /\ resp' = response
    /\ req' = [req EXCEPT !.pc = "done"]
    /\ UNCHANGED <<config, users_db, now, issued>>

\* the assignment written before the existence check: 400, but the item is replaced
create_item_store_first ==
    /\ Handling("create_item")
    /\ db' = db_set(req.item_id, req.item)
    /\ IF db_contains(req.item_id)
       THEN Respond(HTTPException(400, "Item already exists", None))
       ELSE Respond(Response(200, None, None,
                    [kind |-> "dict", status |-> "created", item |-> req.item]))

\* the existence check left out: every create stores its item and answers "created"
create_item_no_check ==
    /\ Handling("create_item")
    /\ db' = db_set(req.item_id, req.item)
    /\ Respond(Response(200, None, None,
                    [kind |-> "dict", status |-> "created", item |-> req.item]))

\* POST /items/{item_id}
create_item ==
    /\ Handling("create_item")
    /\ IF db_contains(req.item_id)
       THEN /\ db' = db
            /\ Respond(HTTPException(400, "Item already exists", None))
       ELSE /\ db' = db_set(req.item_id, req.item)
            /\ Respond(Response(200, None, None,
                    [kind |-> "dict", status |-> "created", item |-> req.item]))

\* GET /items/{item_id}
read_item ==
    /\ Handling("read_item")
    /\ db' = db
    /\ IF ~db_contains(req.item_id)
       THEN Respond(HTTPException(404, "Item not found", None))
       ELSE Respond(Response(200, None, None,
                    [kind |-> "item", item |-> db_get(req.item_id)]))

\* GET /items/
read_items ==
    /\ Handling("read_items")
    /\ db' = db
    /\ Respond(Response(200, None, None, [kind |-> "list", items |-> db_values]))

\* the existence check left out: an update of an unknown id inserts it
update_item_upsert ==
    /\ Handling("update_item")
    /\ db' = db_set(req.item_id, req.item)
    /\ Respond(Response(200, None, None,
                    [kind |-> "dict", status |-> "updated", item |-> req.item]))

\* PUT /items/{item_id}
update_item ==
    /\ Handling("update_item")
    /\ IF ~db_contains(req.item_id)
       THEN /\ db' = db
            /\ Respond(HTTPException(404, "Item not found", None))
       ELSE /\ db' = db_set(req.item_id, req.item)
            /\ Respond(Response(200, None, None,
                    [kind |-> "dict", status |-> "updated", item |-> req.item]))

\* DELETE /items/{item_id}
delete_item ==
    /\ Handling("delete_item")
    /\ IF ~db_contains(req.item_id)
       THEN /\ db' = db
            /\ Respond(HTTPException(404, "Item not found", None))
       ELSE /\ db' = db_pop(req.item_id)
            /\ Respond(Response(200, None, None,
                    [kind |-> "dict", status |-> "deleted", item |-> db_get(req.item_id)]))

\* the token server alone, one request at a time
Next ==
    \/ Tick /\ UNCHANGED others
    \/ \E username \in Usernames, password \in Passwords :
            login(username, password) /\ UNCHANGED others
    \/ \E route \in ProtectedRoutes, c \in Candidates :
            Authorize(route, c.token, c.origin) /\ UNCHANGED others
    \/ create_item /\ UNCHANGED others
    \/ read_item /\ UNCHANGED others
    \/ read_items /\ UNCHANGED others
    \/ update_item /\ UNCHANGED others
    \/ delete_item /\ UNCHANGED others

Spec == Init /\ [][Next]_vars

(***************************************************************************)
(* create_access_token called with its expires_delta parameter omitted,    *)
(* beside the requests of the token server.                                *)
(***************************************************************************)
call_create_access_token(sub) ==
    /\ req.pc = "done"
    /\ issued' = issued \cup
          {[token |-> create_access_token(sub, NoDelta), username |-> sub,
            password |-> None, at |-> now]}
    /\ Cardinality(issued') <= MaxTokens
    /\ UNCHANGED <<config, users_db, db, now, req, resp, others>>

NextDirect ==
    \/ Next
    \/ \E sub \in Usernames : call_create_access_token(sub)

SpecDirect == Init /\ [][NextDirect]_vars

(***************************************************************************)
(* Requests handled concurrently on the one event loop.  The route         *)
(* handlers are coroutines without an await, so each runs to its return    *)
(* once started; the loop may switch to another request between the        *)
(* resolution of a request's dependency and the start of its handler.      *)
(***************************************************************************)
\* the loop leaves an admitted request pending and turns to other requests
Park ==
    /\ req.pc = "handler"
    /\ Cardinality(waiting) < MaxWaiting
    /\ waiting' = waiting \cup {req}
    /\ req' = NoRequest
    /\ UNCHANGED <<config, users_db, db, now, issued, resp,
                   db_basic, req_basic, resp_basic, db_open, resp_open>>

\* the loop runs the handler of a pending request next
Resume(w) ==
    /\ req.pc = "done"
    /\ w \in waiting
    /\ waiting' = waiting \ {w}
    /\ req' = w
    /\ resp' = NoResponse
    /\ UNCHANGED <<config, users_db, db, now, issued,
                   db_basic, req_basic, resp_basic, db_open, resp_open>>

\* the requests of the token server, several in flight, within one minute of
\* the clock: no handler reads the time
NextConcurrent ==
    \/ \E username \in Usernames, password \in Passwords :
            login(username, password) /\ UNCHANGED others
    \/ \E route \in ProtectedRoutes, c \in Candidates :
            Authorize(route, c.token, c.origin) /\ UNCHANGED others
    \/ Park
    \/ \E w \in waiting : Resume(w)
    \/ create_item /\ UNCHANGED others
    \/ read_item /\ UNCHANGED others
    \/ read_items /\ UNCHANGED others
    \/ update_item /\ UNCHANGED others
    \/ delete_item /\ UNCHANGED others

SpecConcurrent == Init /\ [][NextConcurrent]_vars

(***************************************************************************)
(* src/server_basic_auth.py and src/server_no_auth.py.  Each module has    *)
(* its own db; a dict is passed to the operators below and the dict after  *)
(* the call is returned with the response.                                 *)
(***************************************************************************)
\* item_id in d
dict_contains(d, item_id) == \E i \in 1..Len(d) : d[i].id = item_id

dict_index(d, item_id) == CHOOSE i \in 1..Len(d) : d[i].id = item_id

\* d[item_id]
dict_get(d, item_id) == d[dict_index(d, item_id)].item

\* d[item_id] = item
dict_set(d, item_id, item) ==
    IF dict_contains(d, item_id)
    THEN [d EXCEPT ![dict_index(d, item_id)] = [id |-> item_id, item |-> item]]
    ELSE Append(d, [id |-> item_id, item |-> item])

\* d.pop(item_id): the dict without the key
dict_pop(d, item_id) ==
    LET k == dict_index(d, item_id)
    IN  [i \in 1..(Len(d) - 1) |-> IF i < k THEN d[i] ELSE d[i + 1]]

\* list(d.values())
dict_values(d) == [i \in 1..Len(d) |-> d[i].item]

\* os.getenv("APP_PASSWORD"): the password HASHED_PASSWORD is the hash of
APP_PASSWORD == ConfiguredPassword

\* secrets.compare_digest(a, b) of a str a: TypeError when b is None
compare_digest(a, b) ==
    IF b = None THEN "TypeError" ELSE IF a = b THEN "True" ELSE "False"

\* HTTPBasic(): without an Authorization: Basic header, 401 with a Basic challenge
security(authorization) ==
    IF authorization.scheme # "basic"
    THEN [tag |-> "HTTPException", exc |-> HTTPException(401, "Not authenticated", "Basic")]
    ELSE [tag |-> "credentials", exc |-> NoResponse]

invalid_credentials == HTTPException(401, "Invalid credentials", None)

\* "or" in the place of "and": one matching field is enough
verify_credentials_either(credentials) ==
    LET correct_username == compare_digest(credentials.username, APP_USERNAME)
        correct_password == compare_digest(credentials.password, APP_PASSWORD)
    IN  IF "TypeError" \in {correct_username, correct_password}
        THEN [tag |-> "raise", exc |-> UnhandledError]
        ELSE IF ~(correct_username = "True" \/ correct_password = "True")
        THEN [tag |-> "HTTPException", exc |-> invalid_credentials]
        ELSE [tag |-> "credentials", exc |-> NoResponse]

verify_credentials(credentials) ==
    LET correct_username == compare_digest(credentials.username, APP_USERNAME)
        correct_password == compare_digest(credentials.password, APP_PASSWORD)
    IN  IF "TypeError" \in {correct_username, correct_password}
        THEN [tag |-> "raise", exc |-> UnhandledError]
        ELSE IF ~(correct_username = "True" /\ correct_password = "True")
        THEN [tag |-> "HTTPException", exc |-> invalid_credentials]
        ELSE [tag |-> "credentials", exc |-> NoResponse]

\* Depends(verify_credentials), itself depending on security
Depends_verify_credentials(authorization) ==
    IF security(authorization).tag = "HTTPException"
    THEN security(authorization)
    ELSE verify_credentials(authorization)

basic_auth_create_item(d, item_id, item) ==
    IF dict_contains(d, item_id)
    THEN [db |-> d, resp |-> HTTPException(400, "Item already exists", None)]
    ELSE [db |-> dict_set(d, item_id, item),
          resp |-> Response(200, None, None,
                      [kind |-> "dict", status |-> "created", item |-> item])]

basic_auth_read_item(d, item_id) ==
    IF ~dict_contains(d, item_id)
    THEN [db |-> d, resp |-> HTTPException(404, "Item not found", None)]
    ELSE [db |-> d,
          resp |-> Response(200, None, None,
                      [kind |-> "item", item |-> dict_get(d, item_id)])]

basic_auth_read_items(d) ==
    [db |-> d,
     resp |-> Response(200, None, None, [kind |-> "list", items |-> dict_values(d)])]

\* the existence check left out: an update of an unknown id inserts it
basic_auth_update_item_upsert(d, item_id, item) ==
    [db |-> dict_set(d, item_id, item),
     resp |-> Response(200, None, None,
                 [kind |-> "dict", status |-> "updated", item |-> item])]

basic_auth_update_item(d, item_id, item) ==
    IF ~dict_contains(d, item_id)
    THEN [db |-> d, resp |-> HTTPException(404, "Item not found", None)]
    ELSE [db |-> dict_set(d, item_id, item),
          resp |-> Response(200, None, None,
                      [kind |-> "dict", status |-> "updated", item |-> item])]

basic_auth_delete_item(d, item_id) ==
    IF ~dict_contains(d, item_id)
    THEN [db |-> d, resp |-> HTTPException(404, "Item not found", None)]
    ELSE [db |-> dict_pop(d, item_id),
          resp |-> Response(200, None, None,
                      [kind |-> "dict", status |-> "deleted",
                       item |-> dict_get(d, item_id)])]

no_auth_create_item(d, item_id, item) ==
    IF dict_contains(d, item_id)
    THEN [db |-> d, resp |-> HTTPException(400, "Item already exists", None)]
    ELSE [db |-> dict_set(d, item_id, item),
          resp |-> Response(200, None, None,
                      [kind |-> "dict", status |-> "created", item |-> item])]

no_auth_read_item(d, item_id) ==
    IF ~dict_contains(d, item_id)
    THEN [db |-> d, resp |-> HTTPException(404, "Item not found", None)]
    ELSE [db |-> d,
          resp |-> Response(200, None, None,
                      [kind |-> "item", item |-> dict_get(d, item_id)])]

no_auth_read_items(d) ==
    [db |-> d,
     resp |-> Response(200, None, None, [kind |-> "list", items |-> dict_values(d)])]

no_auth_update_item(d, item_id, item) ==
    IF ~dict_contains(d, item_id)
    THEN [db |-> d, resp |-> HTTPException(404, "Item not found", None)]
    ELSE [db |-> dict_set(d, item_id, item),
          resp |-> Response(200, None, None,
                      [kind |-> "dict", status |-> "updated", item |-> item])]

no_auth_delete_item(d, item_id) ==
    IF ~dict_contains(d, item_id)
    THEN [db |-> d, resp |-> HTTPException(404, "Item not found", None)]
    ELSE [db |-> dict_pop(d, item_id),
          resp |-> Response(200, None, None,
                      [kind |-> "dict", status |-> "deleted",
                       item |-> dict_get(d, item_id)])]

\* the routes of the basic-auth app
basic_auth_app(route, d, item_id, item) ==
    CASE route = "create_item" -> basic_auth_create_item(d, item_id, item)
      [] route = "read_item" -> basic_auth_read_item(d, item_id)
      [] route = "read_items" -> basic_auth_read_items(d)
      [] route = "update_item" -> basic_auth_update_item(d, item_id, item)
      [] route = "delete_item" -> basic_auth_delete_item(d, item_id)

\* the routes of the no-auth app
no_auth_app(route, d, item_id, item) ==
    CASE route = "create_item" -> no_auth_create_item(d, item_id, item)
      [] route = "read_item" -> no_auth_read_item(d, item_id)
      [] route = "read_items" -> no_auth_read_items(d)
      [] route = "update_item" -> no_auth_update_item(d, item_id, item)
      [] route = "delete_item" -> no_auth_delete_item(d, item_id)

\* one request to the basic-auth server: the dependency, then the handler
basic_auth_request(route, item_id, item, authorization) ==
    LET credentials == Depends_verify_credentials(authorization)
        out == basic_auth_app(route, db_basic, item_id, item)
    IN  /\ req_basic' = authorization
        /\ IF credentials.tag # "credentials"
           THEN /\ resp_basic' = credentials.exc
                /\ db_basic' = db_basic
           ELSE /\ resp_basic' = out.resp
                /\ db_basic' = out.db

\* one request to the no-auth server
no_auth_request(route, item_id, item) ==
    LET out == no_auth_app(route, db_open, item_id, item)
    IN  /\ resp_open' = out.resp
        /\ db_open' = out.db

\* the request whose handler the token server runs is also sent to the other
\* two servers, to the basic-auth server with credentials it admits
SameRequest ==
    /\ \E authorization \in BasicHeaders :
          /\ Depends_verify_credentials(authorization).tag = "credentials"
          /\ basic_auth_request(req.route, req.item_id, req.item, authorization)
    /\ no_auth_request(req.route, req.item_id, req.item)
    /\ waiting' = waiting

\* a request the basic-auth server does not admit
basic_auth_refused(route, item_id, item, authorization) ==
    /\ Depends_verify_credentials(authorization).tag # "credentials"
    /\ basic_auth_request(route, item_id, item, authorization)
    /\ UNCHANGED <<config, users_db, db, now, issued, req, resp,
                   waiting, db_open, resp_open>>

\* the three servers given the same requests, within one minute of the clock
NextServers ==
    \/ \E username \in Usernames, password \in Passwords :
            login(username, password) /\ UNCHANGED others
    \/ \E route \in ProtectedRoutes, c \in Candidates :
            Authorize(route, c.token, c.origin) /\ UNCHANGED others
    \/ create_item /\ SameRequest
    \/ read_item /\ SameRequest
    \/ read_items /\ SameRequest
    \/ update_item /\ SameRequest
    \/ delete_item /\ SameRequest
    \/ \E i \in RouteInputs, authorization \in BasicHeaders :
            basic_auth_refused(i.route, i.item_id, i.item, authorization)

SpecServers == Init /\ [][NextServers]_vars

(***************************************************************************)
(* The module with the record's "disabled" literal set to True.            *)
(***************************************************************************)
InitDisabled ==
    /\ InitConfig
    /\ users_db = users_db_literal(APP_USERNAME, BcryptHash("salt", ConfiguredPassword), TRUE)
    /\ InitState

SpecDisabled == InitDisabled /\ [][Next]_vars

(***************************************************************************)
(* The module with HASHED_PASSWORD holding either a bcrypt hash or a       *)
(* string that is no hash of any scheme of pwd_context.                    *)
(***************************************************************************)
InitAnyHash ==
    /\ InitConfig
    /\ \E h \in {BcryptHash("salt", ConfiguredPassword), MalformedHash} :
          users_db = users_db_literal(APP_USERNAME, h, FALSE)
    /\ InitState

SpecAnyHash == InitAnyHash /\ [][Next]_vars

(***************************************************************************)
(* Steps, as seen from outside.                                            *)
(***************************************************************************)
\* a step that takes a login request
LoginArrival == req.pc = "done" /\ req'.route = "login" /\ now' = now

\* a step that takes a request to a protected route and resolves its dependency
ProtectedArrival == req.pc = "done" /\ req'.route \in ProtectedRoutes /\ now' = now

\* the stored hash is the hash of this password
HashOf(hashed_password, password) ==
    /\ hashed_password.scheme = "bcrypt"
    /\ hashed_password.digest = <<hashed_password.salt, password>>

\* the ways a presented token fails: no header, no JWT, another secret,
\* presented after its expiry, a subject users_db does not hold
TokenFault(token, origin) ==
    \/ origin \in {"none", "garbled", "foreign"}
    \/ origin = "issued" /\ token.exp < now
    \/ origin = "issued" /\ token.sub \notin DOMAIN users_db

\* the failures get_current_user itself meets: malformed, signature mismatch,
\* expired, no subject, unknown subject
ValidationFault(token, origin) ==
    \/ origin = "garbled"
    \/ origin \in {"foreign", "tampered_sub", "tampered_exp"}
    \/ origin = "issued" /\ token.exp < now
    \/ origin = "issued" /\ token.sub = None
    \/ origin = "issued" /\ token.sub \notin DOMAIN users_db

\* a step in which the handler of this route runs to its response
HandlerStep(route) ==
    /\ req.pc = "handler"
    /\ req.route = route
    /\ req' = [req EXCEPT !.pc = "done"]

\* the keys of a dict and the value it holds under a key
Keys(d) == {d[i].id : i \in 1..Len(d)}

Stored(d, k) == (CHOOSE e \in {d[i] : i \in 1..Len(d)} : e.id = k).item

item_exists == HTTPException(400, "Item already exists", None)

item_not_found == HTTPException(404, "Item not found", None)

(***************************************************************************)
(* C1: for every configured username U with its configured password P, a   *)
(* login with exactly (U, P) succeeds and returns {access_token,           *)
(* token_type: "bearer"} rather than a 401.                                *)
(***************************************************************************)
C1_ConfiguredLoginSucceeds ==
    (/\ req.route = "login"
     /\ APP_USERNAME # None
     /\ req.username = APP_USERNAME
     /\ req.password = ConfiguredPassword)
    => (/\ resp.status = 200
        /\ resp.body.kind = "token"
        /\ resp.body.token_type = "bearer")

(***************************************************************************)
(* C2: every token a successful login returned with lifetime L is accepted *)
(* by get_current_user, resolving to the logged-in user's record, at any   *)
(* time before issuedAt + L, and is rejected at any time later than        *)
(* issuedAt + L.                                                           *)
(***************************************************************************)
C2_IssuedTokenValidUntilExpiry ==
    APP_USERNAME # None =>
        \A i \in issued :
            LET current_user == get_current_user(i.token)
                expiry == i.at + ACCESS_TOKEN_EXPIRE_MINUTES
            IN  /\ now < expiry =>
                    /\ current_user.tag = "user"
                    /\ current_user.user = users_db[i.username]
                /\ now > expiry => current_user.tag = "HTTPException"

(***************************************************************************)
(* C3: on every protected route, a request whose token validation fails    *)
(* (no header, garbled token, wrong-secret token, expired token, unknown   *)
(* subject) is answered 401 with WWW-Authenticate: Bearer, never reaches   *)
(* its handler, and leaves db as it was.                                   *)
(***************************************************************************)
C3_FailedValidationShortCircuits ==
    [][(ProtectedArrival /\ TokenFault(req'.token, req'.origin))
        => (/\ resp'.status = 401
            /\ resp'.challenge = "Bearer"
            /\ req'.pc = "done"
            /\ db' = db)]_vars

\* a garbled token was turned away from delete_item while db holds an item
C3_Witness ==
    /\ req.route = "delete_item"
    /\ req.origin = "garbled"
    /\ req.pc = "done"
    /\ resp.status = 401
    /\ db # <<>>

(***************************************************************************)
(* C4: a token whose subject or expiry was altered after signing, or that  *)
(* was signed with a secret other than SECRET_KEY, is rejected by          *)
(* get_current_user, whatever preceded the request.                        *)
(***************************************************************************)
C4_AlteredOrForeignTokenRejected ==
    (/\ req.route \in ProtectedRoutes
     /\ req.origin \in {"tampered_sub", "tampered_exp", "foreign"})
    => (resp = credentials_exception /\ req.pc = "done")

\* a token of a known subject, its expiry pushed into the future, was rejected
C4_Witness ==
    /\ req.route \in ProtectedRoutes
    /\ req.origin = "tampered_exp"
    /\ users_db_has(req.token.sub)
    /\ req.token.exp > now
    /\ resp = credentials_exception

(***************************************************************************)
(* C5: a login with a username that has no record and a login with an      *)
(* existing username and a wrong password get the same outcome:            *)
(* authenticate_user returns the same failure value, and login answers the *)
(* same status, detail and WWW-Authenticate header.                        *)
(***************************************************************************)
C5_LoginFailuresIndistinguishable ==
    /\ \A u1 \in Usernames, u2 \in Usernames, p1 \in Passwords, p2 \in Passwords :
          (~users_db_has(u1) /\ users_db_has(u2) /\ p2 # ConfiguredPassword)
          => authenticate_user(u1, p1) = authenticate_user(u2, p2)
    /\ (/\ req.route = "login"
        /\ \/ ~users_db_has(req.username)
           \/ req.password # ConfiguredPassword)
       => resp = login_exception

\* the existing user with a wrong password got the 401 an unknown user gets
C5_Witness ==
    /\ req.route = "login"
    /\ users_db_has(req.username)
    /\ req.password # ConfiguredPassword
    /\ resp = login_exception

(***************************************************************************)
(* C6: no token is issued by a failed login: every token the server        *)
(* produced was returned by a login whose username has a record and whose  *)
(* password is the one the record's hash was made from; and while no token *)
(* has been issued, every protected request is rejected.                   *)
(***************************************************************************)
C6_TokensOnlyFromSuccessfulLogin ==
    /\ \A i \in issued :
          /\ users_db_has(i.username)
          /\ HashOf(users_db[i.username].hashed_password, i.password)
    /\ resp.body.kind = "token" =>
          /\ req.route = "login"
          /\ \E i \in issued :
                /\ i.token = resp.body.access_token
                /\ i.username = req.username
                /\ i.password = req.password
    /\ (issued = {} /\ req.route \in ProtectedRoutes)
          => (resp.status = 401 /\ req.pc = "done")

\* only failed logins so far, and a protected request was rejected
C6_Witness ==
    /\ issued = {}
    /\ req.route \in ProtectedRoutes
    /\ req.origin = "foreign"
    /\ resp.status = 401

C8_ExpiryIsIssuancePlusLifetime ==
    \A i \in issued : i.token.exp = i.at + ACCESS_TOKEN_EXPIRE_MINUTES

(***************************************************************************)
(* C9: every validation failure in get_current_user (malformed token,      *)
(* signature mismatch, expired token, token without a subject, subject     *)
(* with no users_db entry) has the same outcome: 401, "Could not validate  *)
(* credentials", WWW-Authenticate: Bearer; no other status or body, and no *)
(* unhandled exception.                                                    *)
(***************************************************************************)
C9_ValidationFailuresUniform ==
    [][ProtectedArrival =>
        /\ ValidationFault(req'.token, req'.origin) =>
              (resp' = credentials_exception /\ req'.pc = "done")
        /\ (req'.origin # "none" /\ req'.pc = "done") => resp' = credentials_exception]_vars

\* a token issued for the known subject was presented after its expiry and rejected
C9_Witness ==
    /\ req.route \in ProtectedRoutes
    /\ req.origin = "issued"
    /\ users_db_has(req.token.sub)
    /\ jwt_exp_inclusive
    /\ req.token.exp < now
    /\ resp = credentials_exception

(***************************************************************************)
(* C10: validation is idempotent and read-only: a token that validates     *)
(* before and after any step resolves to the same user record both times,  *)
(* and neither validation nor login changes users_db or db.                *)
(* get_current_user reads users_db, the clock and the installed PyJWT      *)
(* only: the two resolutions are compared on the steps that change one of  *)
(* these.                                                                  *)
(***************************************************************************)
C10_ValidationIdempotentReadOnly ==
    [][/\ \/ UNCHANGED <<users_db, now, jwt_exp_inclusive>>
          \/ \A c \in Candidates :
                LET before == get_current_user(c.token)
                    after == get_current_user(c.token)'
                IN  (before.tag = "user" /\ after.tag = "user")
                       => before.user = after.user
       /\ (LoginArrival \/ ProtectedArrival) => (db' = db /\ users_db' = users_db)]_vars

\* the one issued token was admitted again after an earlier request, admitted
\* with it, had stored an item
C10_Witness ==
    /\ Cardinality(issued) = 1
    /\ db # <<>>
    /\ req.origin = "issued"
    /\ req.pc = "handler"
    /\ \E i \in issued : req.token = i.token /\ req.current_user = users_db[i.token.sub]

(***************************************************************************)
(* C11: create_item is insert-if-absent: for an item_id not in db it       *)
(* stores the item and answers status "created"; for an item_id already in *)
(* db it answers 400 "Item already exists" and leaves db, including the    *)
(* item stored under that id, unchanged.                                   *)
(***************************************************************************)
C11_CreateInsertsIfAbsent ==
    [][HandlerStep("create_item") =>
        IF req.item_id \in Keys(db)
        THEN /\ resp' = item_exists
             /\ db' = db
        ELSE /\ resp'.status = 200
             /\ resp'.body = [kind |-> "dict", status |-> "created", item |-> req.item]
             /\ Keys(db') = Keys(db) \cup {req.item_id}
             /\ Stored(db', req.item_id) = req.item
             /\ \A k \in Keys(db) : Stored(db', k) = Stored(db, k)]_vars

\* a create for an id that holds another item was refused and the item kept
C11_Witness ==
    /\ req.route = "create_item"
    /\ req.pc = "done"
    /\ resp = item_exists
    /\ req.item_id \in Keys(db)
    /\ Stored(db, req.item_id) # req.item

(***************************************************************************)
(* C12: update_item and delete_item on an item_id not in db answer 404     *)
(* "Item not found" and leave db unchanged; update_item never inserts a    *)
(* key, so the key set of db only grows by a successful create and only    *)
(* shrinks by a successful delete.                                         *)
(***************************************************************************)
C12_MissingIdNotFoundKeysTracked ==
    [][/\ \A route \in {"update_item", "delete_item"} :
             (HandlerStep(route) /\ req.item_id \notin Keys(db))
                => (resp' = item_not_found /\ db' = db)
       /\ Keys(db') =
             IF /\ HandlerStep("create_item")
                /\ resp'.body.kind = "dict"
                /\ resp'.body.status = "created"
             THEN Keys(db) \cup {req.item_id}
             ELSE IF /\ HandlerStep("delete_item")
                     /\ resp'.body.kind = "dict"
                     /\ resp'.body.status = "deleted"
             THEN Keys(db) \ {req.item_id}
             ELSE Keys(db)]_vars

\* an update of an id that db does not hold was answered 404 and inserted nothing
C12_Witness ==
    /\ req.route = "update_item"
    /\ req.pc = "done"
    /\ resp = item_not_found
    /\ req.item_id \notin Keys(db)

(***************************************************************************)
(* C13: when the stored hashed_password is malformed, verify_password      *)
(* returns false and raises nothing, and login answers 401 rather than     *)
(* failing with an unhandled error.                                        *)
(***************************************************************************)
C13_MalformedHashIsNonMatch ==
    (/\ req.route = "login"
     /\ users_db_has(req.username)
     /\ users_db[req.username].hashed_password.scheme # "bcrypt")
    => (/\ verify_password(req.password, users_db[req.username].hashed_password) = "false"
        /\ resp = login_exception)

(***************************************************************************)
(* C14: the subject claim of every token issued by login equals the        *)
(* username submitted and authenticated in that login, the key under which *)
(* get_current_user later looks the subject up in users_db.                *)
(***************************************************************************)
C14_SubjectIsSubmittedUsername ==
    APP_USERNAME # None =>
        \A i \in issued : i.token.sub = i.username /\ users_db_has(i.token.sub)

C16_DefaultLifetimeIsConfigured ==
    \A i \in issued :
        i.password = None => i.token.exp = i.at + ACCESS_TOKEN_EXPIRE_MINUTES

(***************************************************************************)
(* C17: under any interleaving of concurrently handled requests on the     *)
(* shared db, creates for the same absent item_id get exactly one          *)
(* "created" and 400 for the others: a create is answered "created" only   *)
(* when the id is absent at the moment its handler runs, db then holds     *)
(* that request's item, and every other create of the id is answered 400;  *)
(* no step of a create changes the item stored under an id db holds.       *)
(***************************************************************************)
C17_ConcurrentCreatesOneWinner ==
    [][HandlerStep("create_item") =>
        /\ (resp'.body.kind = "dict" /\ resp'.body.status = "created")
              <=> req.item_id \notin Keys(db)
        /\ req.item_id \notin Keys(db) =>
              /\ req.item_id \in Keys(db')
              /\ Stored(db', req.item_id) = req.item
        /\ req.item_id \in Keys(db) => resp' = item_exists
        /\ \A k \in Keys(db) : k \in Keys(db') /\ Stored(db', k) = Stored(db, k)]_vars

\* two creates of one id with different items were admitted together; one has
\* run and was answered "created", the other is still pending
C17_Witness ==
    /\ req.route = "create_item"
    /\ req.pc = "done"
    /\ resp.body.kind = "dict"
    /\ resp.body.status = "created"
    /\ Stored(db, req.item_id) = req.item
    /\ \E w \in waiting :
          /\ w.route = "create_item"
          /\ w.item_id = req.item_id
          /\ w.item # req.item

(***************************************************************************)
(* C18: the three servers guard the same CRUD surface: for every sequence  *)
(* of create/read/list/update/delete requests that each pass the server's  *)
(* authentication check, the token-auth server and the basic-auth server   *)
(* return the same statuses and bodies and reach the same db state as the  *)
(* no-auth server given the same sequence.                                 *)
(***************************************************************************)
C18_SameCrudSurface ==
    [][(\E route \in ProtectedRoutes : HandlerStep(route)) =>
          /\ resp' = resp_open'
          /\ resp_basic' = resp_open'
          /\ db' = db_open'
          /\ db_basic' = db_open']_vars

\* the same update of a stored item was answered "updated" by the three servers,
\* and the three dicts hold the new item
C18_Witness ==
    /\ req.route = "update_item"
    /\ req.pc = "done"
    /\ resp.body.kind = "dict"
    /\ resp.body.status = "updated"
    /\ resp_basic = resp
    /\ resp_open = resp
    /\ Stored(db, req.item_id) = req.item
    /\ Stored(db_basic, req.item_id) = req.item
    /\ Stored(db_open, req.item_id) = req.item

(***************************************************************************)
(* C19: in the basic-auth server, with APP_USERNAME and APP_PASSWORD set,  *)
(* verify_credentials admits a request if and only if both the supplied    *)
(* username equals APP_USERNAME and the supplied password equals           *)
(* APP_PASSWORD; in every other case it raises 401 "Invalid credentials"   *)
(* before the route handler runs, so db is unchanged by any request with   *)
(* wrong credentials (a request without credentials is refused 401 by      *)
(* HTTPBasic before verify_credentials is called).                         *)
(***************************************************************************)
C19_AdmitsIffBothMatch ==
    [][(/\ APP_USERNAME # None
        /\ <<req_basic, resp_basic, db_basic>>' # <<req_basic, resp_basic, db_basic>>)
       => IF /\ req_basic'.scheme = "basic"
             /\ req_basic'.username = APP_USERNAME
             /\ req_basic'.password = APP_PASSWORD
          THEN resp_basic'.status \in {200, 400, 404}
          ELSE /\ resp_basic'.status = 401
               /\ req_basic'.scheme = "basic" => resp_basic' = invalid_credentials
               /\ db_basic' = db_basic]_vars

\* the right username with a wrong password was refused while db holds an item
C19_Witness ==
    /\ req_basic.scheme = "basic"
    /\ req_basic.username = APP_USERNAME
    /\ req_basic.password # APP_PASSWORD
    /\ resp_basic = invalid_credentials
    /\ db_basic # <<>>

====
